---- MODULE Spec2Model ----
(***************************************************************************)
(* Client-side behaviour of the "Loan Disbursement" document type:         *)
(*   - the form controller (setup, refresh, make_repayment_entry and the   *)
(*     callback of its remote call), loan_disbursement.js                  *)
(*   - the list-view indicator (get_indicator), loan_disbursement_list.js  *)
(***************************************************************************)
EXTENDS Integers, Sequences, FiniteSets, TLC

VARIABLES
    doc,                            \* frm.doc, the record shown in the form
    ignore_doctypes_on_cancel_all,  \* frm.ignore_doctypes_on_cancel_all
    queries,                        \* fields for which frm.set_query registered the query
    custom_buttons,                 \* custom buttons rendered on the form, in order
    fresh,                          \* TRUE iff frm.doc is unchanged since the last refresh
    pending,                        \* remote calls issued and not yet answered, in issue order
    clicks,                         \* number of activations of the button
    arrivals,                       \* truthy r.message values, in the order the responses arrived
    nullResponses,                  \* number of responses that arrived with a falsy r.message
    routes,                         \* arguments of every frappe.set_route call, in order
    locals,                         \* records held by frappe.model (locals)
    uncaught,                       \* exceptions that propagated out of a callback
    lang,                           \* language of the session, selects the translations of __()
    rows                            \* rows of the list view: the record's status and its indicator

vars == <<doc, ignore_doctypes_on_cancel_all, queries, custom_buttons, fresh, pending,
          clicks, arrivals, nullResponses, routes, locals, uncaught, lang, rows>>

formVars == <<doc, ignore_doctypes_on_cancel_all, queries, custom_buttons, fresh, pending,
              clicks, arrivals, nullResponses, routes, locals, uncaught>>

listVars == <<lang, rows>>

----------------------------------------------------------------------------
(* Bounds *)

MaxCalls == 2       \* activations of the button in one behaviour
MaxRows == 2        \* rows of the list view

----------------------------------------------------------------------------
(* JavaScript values *)

Undefined == [kind |-> "undefined", val |-> ""]
Null == [kind |-> "null", val |-> ""]
Str(s) == [kind |-> "string", val |-> s]
Obj(dt, n) == [kind |-> "object", doctype |-> dt, name |-> n]

\* ToBoolean of the values that occur here
Truthy(v) ==
    CASE v.kind = "undefined" -> FALSE
      [] v.kind = "null" -> FALSE
      [] v.kind = "string" -> v.val # ""
      [] OTHER -> TRUE

----------------------------------------------------------------------------
(* Records *)

DocStatuses == {0, 1, 2}
Statuses == {"Draft", "Submitted", "Cancelled", "Closed",
             "Sanctioned", "Active", "Partially Disbursed"}
\* the statuses of the record shown in the form
FormStatuses == {"Draft", "Submitted", "Cancelled", "Closed", "Active"}
ScheduleTypes == {Null, Str(""), Str("Daily")}
Loans == {"LOAN-001", "LOAN-002"}

Docs == [docstatus : DocStatuses,
         status : FormStatuses,
         repayment_schedule_type : ScheduleTypes,
         against_loan : Loans,
         applicant_type : {"Customer"},
         applicant : {"CUST-001"},
         loan_product : {"Personal Loan"},
         company : {"ACME"},
         name : {"LD-001"}]

\* r.message of a response: absent, null, or the new record as a dict
Messages == {Undefined, Null, Obj("Loan Repayment", "LR-001"), Obj("Loan Repayment", "LR-002")}

----------------------------------------------------------------------------
(* Form controller: setup *)

IgnoredDoctypes_short ==
    <<"Loan Security Deposit", "Loan Repayment Schedule", "Sales Invoice",
      "Loan Interest Accrual", "Loan Demand", "Loan Restructure", "Loan Repayment">>

IgnoredDoctypes ==
    <<"Loan Security Deposit", "Loan Repayment Schedule", "Sales Invoice",
      "Loan Interest Accrual", "Loan Demand", "Loan Restructure", "Loan Repayment",
      "Process Loan Classification">>

setup ==
    /\ ignore_doctypes_on_cancel_all' = [kind |-> "array", items |-> IgnoredDoctypes]
    /\ UNCHANGED <<doc, queries, custom_buttons, fresh, pending, clicks, arrivals,
                   nullResponses, routes, locals, uncaught>>
    /\ UNCHANGED listVars

----------------------------------------------------------------------------
(* Form controller: refresh *)

against_loan_query_of_record(d) ==
    [filters |-> [docstatus |-> d.docstatus,
                  status |-> <<"in", <<"Sanctioned", "Active", "Partially Disbursed">>>>]]

\* the function given to frm.set_query('against_loan', ...), applied to a record
against_loan_query(d) ==
    [filters |-> [docstatus |-> 1,
                  status |-> <<"in", <<"Sanctioned", "Active", "Partially Disbursed">>>>]]

set_query(qs, field) == qs \cup {field}

show_repayment_button_any_status(d) ==
    /\ d.docstatus = 1
    /\ Truthy(d.repayment_schedule_type)

show_repayment_button_any_docstatus(d) ==
    /\ Truthy(d.repayment_schedule_type)
    /\ d.status # "Closed"

\* the condition of the if statement of refresh
show_repayment_button(d) ==
    /\ d.docstatus = 1
    /\ Truthy(d.repayment_schedule_type)
    /\ d.status # "Closed"

RepaymentButton == [label |-> "Loan Repayment", group |-> "Create"]

\* the form clears its custom buttons before it triggers the refresh handlers
clear_custom_buttons(bs) == <<>>

\* a button is added to its group unless the group already has one with that label
add_custom_button(bs, b) ==
    IF \E i \in 1..Len(bs) : bs[i] = b THEN bs ELSE Append(bs, b)

refresh ==
    /\ queries' = set_query(queries, "against_loan")
    /\ custom_buttons' =
          IF show_repayment_button(doc)
          THEN add_custom_button(clear_custom_buttons(custom_buttons), RepaymentButton)
          ELSE clear_custom_buttons(custom_buttons)
    /\ fresh' = TRUE
    /\ UNCHANGED <<doc, ignore_doctypes_on_cancel_all, pending, clicks, arrivals,
                   nullResponses, routes, locals, uncaught>>
    /\ UNCHANGED listVars

----------------------------------------------------------------------------
(* Form controller: make_repayment_entry *)

RepaymentMethod == "lending.loan_management.doctype.loan.loan.make_repayment_entry"

make_repayment_entry_args_own_name(d) ==
    [loan |-> d.name,
     applicant_type |-> d.applicant_type,
     applicant |-> d.applicant,
     loan_product |-> d.loan_product,
     company |-> d.company,
     loan_disbursement |-> d.name,
     as_dict |-> 1]

make_repayment_entry_args(d) ==
    [loan |-> d.against_loan,
     applicant_type |-> d.applicant_type,
     applicant |-> d.applicant,
     loan_product |-> d.loan_product,
     company |-> d.company,
     loan_disbursement |-> d.name,
     as_dict |-> 1]

frappe_call_single(ps, method, args) ==
    IF ps # <<>> THEN ps ELSE Append(ps, [method |-> method, args |-> args])

\* frappe.call sends the request; the callback runs when the response arrives
frappe_call(ps, method, args) == Append(ps, [method |-> method, args |-> args])

ButtonShown == \E i \in 1..Len(custom_buttons) : custom_buttons[i] = RepaymentButton

\* a click on the button: frm.trigger("make_repayment_entry")
make_repayment_entry ==
    /\ ButtonShown
    /\ clicks < MaxCalls
    /\ clicks' = clicks + 1
    /\ pending' = frappe_call(pending, RepaymentMethod, make_repayment_entry_args(doc))
    /\ UNCHANGED <<doc, ignore_doctypes_on_cancel_all, queries, custom_buttons, fresh,
                   arrivals, nullResponses, routes, locals, uncaught>>
    /\ UNCHANGED listVars

----------------------------------------------------------------------------
(* Form controller: the callback of the remote call *)

\* frappe.model.sync(message): the record is stored in locals, the list of
\* the synchronised records is returned
model_sync_locals(ls, m) == ls \cup {m}
model_sync(m) == <<m>>

set_route_swapped(rs, a, b, c) == Append(rs, <<a, c, b>>)

set_route(rs, a, b, c) == Append(rs, <<a, b, c>>)

\* "var doc" is hoisted: it is undefined unless the if branch assigned it
callback_doc(r) == IF Truthy(r.message) THEN model_sync(r.message)[1] ELSE Undefined

\* reading a property of undefined or null throws a TypeError
CanReadProperty(v) == v.kind \notin {"undefined", "null"}

callback(r) ==
    /\ locals' = IF Truthy(r.message) THEN model_sync_locals(locals, r.message) ELSE locals
    /\ IF CanReadProperty(callback_doc(r))
       THEN /\ routes' = set_route(routes, "Form", callback_doc(r).doctype, callback_doc(r).name)
            /\ uncaught' = uncaught
       ELSE /\ routes' = routes
            /\ uncaught' = uncaught + 1

\* the response of the i-th outstanding call arrives with message m
Respond(i, m) ==
    /\ i \in 1..Len(pending)
    /\ pending' = [j \in 1..(Len(pending) - 1) |-> IF j < i THEN pending[j] ELSE pending[j + 1]]
    /\ IF Truthy(m)
       THEN arrivals' = Append(arrivals, m) /\ nullResponses' = nullResponses
       ELSE arrivals' = arrivals /\ nullResponses' = nullResponses + 1
    /\ callback([message |-> m])
    /\ UNCHANGED <<doc, ignore_doctypes_on_cancel_all, queries, custom_buttons, fresh, clicks>>
    /\ UNCHANGED listVars

----------------------------------------------------------------------------
(* The record changes (save, submit, cancel, reload from the server) *)

DocChange(d) ==
    /\ d # doc
    /\ doc' = d
    /\ fresh' = FALSE
    /\ UNCHANGED <<ignore_doctypes_on_cancel_all, queries, custom_buttons, pending, clicks,
                   arrivals, nullResponses, routes, locals, uncaught>>
    /\ UNCHANGED listVars

----------------------------------------------------------------------------
(* The form *)

Init ==
    /\ doc \in Docs
    /\ ignore_doctypes_on_cancel_all = Undefined
    /\ queries = {}
    /\ custom_buttons = <<>>
    /\ fresh = FALSE
    /\ pending = <<>>
    /\ clicks = 0
    /\ arrivals = <<>>
    /\ nullResponses = 0
    /\ routes = <<>>
    /\ locals = {}
    /\ uncaught = 0
    /\ lang = "en"
    /\ rows = <<>>

Next ==
    \/ setup
    \/ refresh
    \/ make_repayment_entry
    \/ \E i \in 1..MaxCalls, m \in Messages : Respond(i, m)
    \/ \E d \in Docs : DocChange(d)

Spec == Init /\ [][Next]_vars

----------------------------------------------------------------------------
(* List view: get_indicator *)

\* translations of the session's language; a text without one stays as it is
Translations ==
    [en |-> <<>>,
     de |-> [Draft |-> "Entwurf", Cancelled |-> "Abgebrochen", Closed |-> "Geschlossen",
             Active |-> "Aktiv"]]

__tr(s) == IF s \in DOMAIN Translations[lang] THEN Translations[lang][s] ELSE s

status_color_cancelled_gray ==
    [Draft |-> "red", Submitted |-> "blue", Cancelled |-> "gray", Closed |-> "green"]

status_color ==
    [Draft |-> "red", Submitted |-> "blue", Cancelled |-> "red", Closed |-> "green"]

status_color_get_default(s) ==
    IF s \in DOMAIN status_color THEN Str(status_color[s]) ELSE Str("gray")

\* status_color[doc.status]: a missing property reads as undefined
status_color_get(s) == IF s \in DOMAIN status_color THEN Str(status_color[s]) ELSE Undefined

get_indicator(d) ==
    [kind |-> "array",
     items |-> <<__tr(d.status), status_color_get(d.status), "status,=," \o d.status>>]

NotRendered == [kind |-> "none", items |-> <<>>]

\* the list view loads a record
LoadRow(s) ==
    /\ Len(rows) < MaxRows
    /\ rows' = Append(rows, [doc |-> [status |-> s], indicator |-> NotRendered])
    /\ UNCHANGED lang
    /\ UNCHANGED formVars

\* the list view renders the indicator of its i-th row
RenderRow(i) ==
    /\ i \in 1..Len(rows)
    /\ rows[i].indicator = NotRendered
    /\ rows' = [rows EXCEPT ![i].indicator = get_indicator(rows[i].doc)]
    /\ UNCHANGED lang
    /\ UNCHANGED formVars

ListInit ==
    /\ lang \in {"en", "de"}
    /\ rows = <<>>
    /\ doc = [docstatus |-> 0, status |-> "Draft", repayment_schedule_type |-> Null,
              against_loan |-> "LOAN-001", applicant_type |-> "Customer",
              applicant |-> "CUST-001", loan_product |-> "Personal Loan",
              company |-> "ACME", name |-> "LD-001"]
    /\ ignore_doctypes_on_cancel_all = Undefined
    /\ queries = {}
    /\ custom_buttons = <<>>
    /\ fresh = FALSE
    /\ pending = <<>>
    /\ clicks = 0
    /\ arrivals = <<>>
    /\ nullResponses = 0
    /\ routes = <<>>
    /\ locals = {}
    /\ uncaught = 0

ListNext ==
    \/ \E s \in Statuses : LoadRow(s)
    \/ \E i \in 1..MaxRows : RenderRow(i)

ListSpec == ListInit /\ [][ListNext]_vars

----------------------------------------------------------------------------
(* Properties *)

Last(q) == q[Len(q)]

\* the truthy values a repayment_schedule_type can hold
IsSet(v) == v \notin {Undefined, Null, Str("")}

VisibilityPredicate(d) ==
    d.docstatus = 1 /\ IsSet(d.repayment_schedule_type) /\ d.status # "Closed"

NumRepaymentButtons ==
    Cardinality({i \in 1..Len(custom_buttons) : custom_buttons[i].label = "Loan Repayment"})

\* C1: a response without a message causes no navigation and no exception
\* propagates out of the callback.
C1_NoMessageIsSilent ==
    [][nullResponses' # nullResponses => (routes' = routes /\ uncaught' = uncaught)]_vars

\* C2: after a refresh the 'Loan Repayment' button is shown iff docstatus = 1,
\* repayment_schedule_type is truthy and status is not "Closed".
C2_ButtonShownIff ==
    [][refresh => (ButtonShown' <=> VisibilityPredicate(doc'))]_vars

C2_Witness ==
    /\ fresh
    /\ ButtonShown
    /\ doc.docstatus = 1
    /\ doc.repayment_schedule_type = Str("Daily")
    /\ doc.status = "Active"

\* C3: a response with a message stores the record in locals and performs
\* exactly one navigation, to ("Form", doctype, name) of the returned record;
\* for {doctype: "Loan Repayment", name: "LR-001"} this is
\* ("Form", "Loan Repayment", "LR-001").
C3_NavigateToReturnedRecord ==
    [][Len(arrivals') > Len(arrivals) =>
          /\ routes' = Append(routes, <<"Form", Last(arrivals').doctype, Last(arrivals').name>>)
          /\ Last(arrivals') \in locals'
          /\ uncaught' = uncaught
          /\ (Last(arrivals') = Obj("Loan Repayment", "LR-001")
                => Last(routes') = <<"Form", "Loan Repayment", "LR-001">>)]_vars

C3_Witness ==
    /\ arrivals # <<>>
    /\ Last(arrivals) = Obj("Loan Repayment", "LR-001")
    /\ routes # <<>>
    /\ Last(routes) = <<"Form", "Loan Repayment", "LR-001">>

DocumentedColor ==
    [Draft |-> "red", Submitted |-> "blue", Cancelled |-> "red", Closed |-> "green"]

FilterOf(s) ==
    CASE s = "Draft" -> "status,=,Draft"
      [] s = "Submitted" -> "status,=,Submitted"
      [] s = "Cancelled" -> "status,=,Cancelled"
      [] s = "Closed" -> "status,=,Closed"
      [] s = "Sanctioned" -> "status,=,Sanctioned"
      [] s = "Active" -> "status,=,Active"
      [] s = "Partially Disbursed" -> "status,=,Partially Disbursed"

Rendered(i) == rows[i].indicator.kind = "array"

\* C4: for Draft, Submitted, Cancelled and Closed, get_indicator returns the
\* documented colour (red, blue, red, green) and the filter "status,=,<status>".
C4_MappedIndicator ==
    \A i \in 1..Len(rows) :
        (Rendered(i) /\ rows[i].doc.status \in DOMAIN DocumentedColor) =>
            /\ Len(rows[i].indicator.items) = 3
            /\ rows[i].indicator.items[2] = Str(DocumentedColor[rows[i].doc.status])
            /\ rows[i].indicator.items[3] = FilterOf(rows[i].doc.status)

C4_Witness ==
    \E i \in 1..Len(rows) :
        /\ Rendered(i)
        /\ rows[i].doc.status = "Cancelled"
        /\ rows[i].indicator.items[2] = Str("red")

\* C5: for a status without a colour, get_indicator still returns the label
\* and the filter "status,=,<status>", and its colour is undefined.
C5_UnmappedFailsSoft ==
    \A i \in 1..Len(rows) :
        (rows[i].indicator # NotRendered /\ rows[i].doc.status \notin DOMAIN DocumentedColor) =>
            /\ Rendered(i)
            /\ Len(rows[i].indicator.items) = 3
            /\ rows[i].indicator.items[1] \in
                  {rows[i].doc.status} \cup
                  {Translations[l][rows[i].doc.status] :
                      l \in {k \in DOMAIN Translations :
                                rows[i].doc.status \in DOMAIN Translations[k]}}
            /\ rows[i].indicator.items[2] = Undefined
            /\ rows[i].indicator.items[3] = FilterOf(rows[i].doc.status)

C5_Witness ==
    \E i \in 1..Len(rows) :
        /\ Rendered(i)
        /\ rows[i].doc.status = "Partially Disbursed"
        /\ rows[i].indicator.items[2] = Undefined

\* C6: after a refresh the query of against_loan is registered, shown button
\* or not, and its filters are docstatus = 1 and status in
\* {Sanctioned, Active, Partially Disbursed}, whatever the record is.
C6_QueryFilters ==
    /\ fresh => "against_loan" \in queries
    /\ "against_loan" \in queries =>
          /\ DOMAIN against_loan_query(doc).filters = {"docstatus", "status"}
          /\ against_loan_query(doc).filters.docstatus = 1
          /\ against_loan_query(doc).filters.status[1] = "in"
          /\ {against_loan_query(doc).filters.status[2][k] :
                 k \in 1..Len(against_loan_query(doc).filters.status[2])}
                = {"Sanctioned", "Active", "Partially Disbursed"}

C6_Witness ==
    /\ fresh
    /\ "against_loan" \in queries
    /\ ~ButtonShown
    /\ doc.docstatus = 2
    /\ doc.status = "Cancelled"

\* C7: an activation of the button issues exactly one call of
\* make_repayment_entry with the arguments taken from the record as it is,
\* and as_dict = 1, and changes no field of the record.
C7_OneCallPerActivation ==
    [][clicks' # clicks =>
          /\ Len(pending') = Len(pending) + 1
          /\ \A k \in 1..Len(pending) : pending'[k] = pending[k]
          /\ Last(pending').method =
                "lending.loan_management.doctype.loan.loan.make_repayment_entry"
          /\ Last(pending').args =
                [loan |-> doc.against_loan, applicant_type |-> doc.applicant_type,
                 applicant |-> doc.applicant, loan_product |-> doc.loan_product,
                 company |-> doc.company, loan_disbursement |-> doc.name, as_dict |-> 1]
          /\ doc' = doc]_vars

C7_Witness ==
    /\ clicks > 0
    /\ pending # <<>>
    /\ Last(pending).args.loan = "LOAN-002"
    /\ Last(pending).args.loan_disbursement = "LD-001"

IsFixedIgnoreList(v) ==
    /\ v.kind = "array"
    /\ Len(v.items) = 8
    /\ {v.items[k] : k \in 1..Len(v.items)} =
          {"Loan Security Deposit", "Loan Repayment Schedule", "Sales Invoice",
           "Loan Interest Accrual", "Loan Demand", "Loan Restructure", "Loan Repayment",
           "Process Loan Classification"}

\* C8: setup sets the cascade-cancel exclusion list to the fixed eight document
\* types, and no later step (setup again, refresh, make_repayment_entry, the
\* callback, a change of the record) changes it.
C8_IgnoreListFixed ==
    [][/\ setup => IsFixedIgnoreList(ignore_doctypes_on_cancel_all')
       /\ ignore_doctypes_on_cancel_all # Undefined =>
             /\ IsFixedIgnoreList(ignore_doctypes_on_cancel_all)
             /\ ignore_doctypes_on_cancel_all' = ignore_doctypes_on_cancel_all]_vars

C8_Witness ==
    /\ IsFixedIgnoreList(ignore_doctypes_on_cancel_all)
    /\ fresh
    /\ clicks > 0
    /\ routes # <<>>

\* C9: activations are not deduplicated: every activation has its call, either
\* outstanding or answered, and every response with a message has its
\* navigation, in the order of arrival.
C9_NoDeduplication ==
    /\ Len(pending) + Len(arrivals) + nullResponses = clicks
    /\ Len(routes) = Len(arrivals)
    /\ \A k \in 1..Len(arrivals) :
          routes[k] = <<"Form", arrivals[k].doctype, arrivals[k].name>>

C9_Witness ==
    /\ clicks = 2
    /\ Len(pending) = 2

\* C10: the button is not sticky: whenever the record is as it was at the
\* latest refresh, there is one button if the predicate holds for it and none
\* otherwise.
C10_VisibilityRecomputed ==
    fresh => NumRepaymentButtons = (IF VisibilityPredicate(doc) THEN 1 ELSE 0)

C10_Witness ==
    /\ fresh
    /\ pending # <<>>
    /\ doc.status = "Closed"
    /\ doc.docstatus = 1
    /\ IsSet(doc.repayment_schedule_type)
    /\ NumRepaymentButtons = 0

====
